---- MODULE Spec2Model ----
(***************************************************************************)
(* Model of src/params.rs of ssh2-config: the HostParams record (14        *)
(* independently optional fields) and HostParams::merge, which overrides   *)
(* the receiver's fields with the fields that are set in its argument.     *)
(*                                                                         *)
(* An Option<T> is modelled as a sequence of length 0 or 1: None is <<>>   *)
(* and Some(v) is <<v>>, so Some(vec![]) = << <<>> >> differs from None.   *)
(* A HostParams is a record with the 14 field names of the struct.         *)
(***************************************************************************)
EXTENDS Naturals, Sequences, FiniteSets

\* Longest run of merge calls on one receiver that the model explores.
MaxLayers == 2

----------------------------------------------------------------------------
\* Option<T>

None == <<>>

Some(v) == <<v>>

is_some(o) == o # None

is_none(o) == o = None

unwrap(o) == o[1]

----------------------------------------------------------------------------
\* struct HostParams

Fields ==
    { "bind_address", "bind_interface", "ca_signature_algorithms",
      "certificate_file", "ciphers", "compression", "connection_attemps",
      "connect_timeout", "host_name", "mac", "pubkey_accepted_algorithms",
      "pubkey_authentication", "remote_forward", "tcp_keep_alive" }

\* Fields of type Option<bool>.
BoolFields == { "compression", "pubkey_authentication", "tcp_keep_alive" }

\* Values of each field's type that the model draws inputs from.  They are
\* the values of test::should_merge_params plus one other value per field,
\* chosen so that false, 0 and the empty list occur as explicit values.
\* Durations are in seconds; a PathBuf is its string.
Dom(f) ==
    CASE f = "bind_address"               -> { "pippo", "10.0.0.1" }
      [] f = "bind_interface"             -> { "tun0", "eth0" }
      [] f = "ca_signature_algorithms"    -> { <<>>, <<"ssh-ed25519">> }
      [] f = "certificate_file"           -> { "", "/tmp/cert.pub" }
      [] f = "ciphers"                    -> { <<>>, <<"aes128">> }
      [] f = "compression"                -> { TRUE, FALSE }
      [] f = "connection_attemps"         -> { 3, 0 }
      [] f = "connect_timeout"            -> { 1, 30 }
      [] f = "host_name"                  -> { "192.168.1.2", "example.com" }
      [] f = "mac"                        -> { <<>>, <<"hmac-sha2-256">> }
      [] f = "pubkey_accepted_algorithms" -> { <<>>, <<"rsa-sha2-512">> }
      [] f = "pubkey_authentication"      -> { TRUE, FALSE }
      [] f = "remote_forward"             -> { 32, 0 }
      [] f = "tcp_keep_alive"             -> { TRUE, FALSE }

\* The values of a field of type Option<T>.
Opt(f) == { None } \cup { Some(v) : v \in Dom(f) }

\* Membership in the struct's type.
IsHostParams(p) == /\ DOMAIN p = Fields
                   /\ \A f \in Fields : p[f] \in Opt(f)

\* A hand-written Default that starts the flags at Some(false).
default_flags_false == [f \in Fields |-> IF f \in BoolFields THEN Some(FALSE) ELSE None]

\* #[derive(Default)]: every Option field is None.
default == [f \in Fields |-> None]

----------------------------------------------------------------------------
\* HostParams::merge, one operator per `if let Some(..)` statement.

merge_bind_address(self, rhs) ==
    IF is_some(rhs.bind_address)
    THEN [self EXCEPT !.bind_address = Some(unwrap(rhs.bind_address))]
    ELSE self

\* Copy-paste slip: the bind_interface statement assigns bind_address.
merge_bind_interface_typo(self, rhs) ==
    IF is_some(rhs.bind_interface)
    THEN [self EXCEPT !.bind_address = Some(unwrap(rhs.bind_interface))]
    ELSE self

merge_bind_interface(self, rhs) ==
    IF is_some(rhs.bind_interface)
    THEN [self EXCEPT !.bind_interface = Some(unwrap(rhs.bind_interface))]
    ELSE self

merge_ca_signature_algorithms(self, rhs) ==
    IF is_some(rhs.ca_signature_algorithms)
    THEN [self EXCEPT !.ca_signature_algorithms =
                          Some(unwrap(rhs.ca_signature_algorithms))]
    ELSE self

merge_certificate_file(self, rhs) ==
    IF is_some(rhs.certificate_file)
    THEN [self EXCEPT !.certificate_file = Some(unwrap(rhs.certificate_file))]
    ELSE self

\* The incoming list is appended to the receiver's list.
merge_ciphers_extend(self, rhs) ==
    IF is_some(rhs.ciphers)
    THEN [self EXCEPT !.ciphers =
            IF is_some(self.ciphers)
            THEN Some(unwrap(self.ciphers) \o unwrap(rhs.ciphers))
            ELSE Some(unwrap(rhs.ciphers))]
    ELSE self

merge_ciphers(self, rhs) ==
    IF is_some(rhs.ciphers)
    THEN [self EXCEPT !.ciphers = Some(unwrap(rhs.ciphers))]
    ELSE self

\* The flag is or-ed into the receiver's flag.
merge_compression_or(self, rhs) ==
    IF is_some(rhs.compression)
    THEN [self EXCEPT !.compression =
            IF is_some(self.compression)
            THEN Some(unwrap(self.compression) \/ unwrap(rhs.compression))
            ELSE Some(unwrap(rhs.compression))]
    ELSE self

merge_compression(self, rhs) ==
    IF is_some(rhs.compression)
    THEN [self EXCEPT !.compression = Some(unwrap(rhs.compression))]
    ELSE self

merge_connection_attemps(self, rhs) ==
    IF is_some(rhs.connection_attemps)
    THEN [self EXCEPT !.connection_attemps = Some(unwrap(rhs.connection_attemps))]
    ELSE self

\* First value wins: the field is assigned only while it is None.
merge_connect_timeout_keep(self, rhs) ==
    IF is_some(rhs.connect_timeout) /\ is_none(self.connect_timeout)
    THEN [self EXCEPT !.connect_timeout = Some(unwrap(rhs.connect_timeout))]
    ELSE self

merge_connect_timeout(self, rhs) ==
    IF is_some(rhs.connect_timeout)
    THEN [self EXCEPT !.connect_timeout = Some(unwrap(rhs.connect_timeout))]
    ELSE self

\* Unconditional assignment: self.host_name = b.host_name.clone().
merge_host_name_assign(self, rhs) ==
    [self EXCEPT !.host_name = rhs.host_name]

merge_host_name(self, rhs) ==
    IF is_some(rhs.host_name)
    THEN [self EXCEPT !.host_name = Some(unwrap(rhs.host_name))]
    ELSE self

\* The incoming list is appended to the receiver's list.
merge_mac_extend(self, rhs) ==
    IF is_some(rhs.mac)
    THEN [self EXCEPT !.mac =
            IF is_some(self.mac)
            THEN Some(unwrap(self.mac) \o unwrap(rhs.mac))
            ELSE Some(unwrap(rhs.mac))]
    ELSE self

merge_mac(self, rhs) ==
    IF is_some(rhs.mac)
    THEN [self EXCEPT !.mac = Some(unwrap(rhs.mac))]
    ELSE self

merge_pubkey_accepted_algorithms(self, rhs) ==
    IF is_some(rhs.pubkey_accepted_algorithms)
    THEN [self EXCEPT !.pubkey_accepted_algorithms =
                          Some(unwrap(rhs.pubkey_accepted_algorithms))]
    ELSE self

\* Copy-paste slip: the pubkey_authentication statement assigns compression.
merge_pubkey_authentication_typo(self, rhs) ==
    IF is_some(rhs.pubkey_authentication)
    THEN [self EXCEPT !.compression = Some(unwrap(rhs.pubkey_authentication))]
    ELSE self

merge_pubkey_authentication(self, rhs) ==
    IF is_some(rhs.pubkey_authentication)
    THEN [self EXCEPT !.pubkey_authentication =
                          Some(unwrap(rhs.pubkey_authentication))]
    ELSE self

merge_remote_forward(self, rhs) ==
    IF is_some(rhs.remote_forward)
    THEN [self EXCEPT !.remote_forward = Some(unwrap(rhs.remote_forward))]
    ELSE self

\* Unconditional assignment: self.tcp_keep_alive = b.tcp_keep_alive.
merge_tcp_keep_alive_assign(self, rhs) ==
    [self EXCEPT !.tcp_keep_alive = rhs.tcp_keep_alive]

merge_tcp_keep_alive(self, rhs) ==
    IF is_some(rhs.tcp_keep_alive)
    THEN [self EXCEPT !.tcp_keep_alive = Some(unwrap(rhs.tcp_keep_alive))]
    ELSE self

\* The 14 statements in the order of the function body; the result is the
\* receiver as the call leaves it.
merge(self, rhs) ==
    LET s1  == merge_bind_address(self, rhs)
        s2  == merge_bind_interface(s1, rhs)
        s3  == merge_ca_signature_algorithms(s2, rhs)
        s4  == merge_certificate_file(s3, rhs)
        s5  == merge_ciphers(s4, rhs)
        s6  == merge_compression(s5, rhs)
        s7  == merge_connection_attemps(s6, rhs)
        s8  == merge_connect_timeout(s7, rhs)
        s9  == merge_host_name(s8, rhs)
        s10 == merge_mac(s9, rhs)
        s11 == merge_pubkey_accepted_algorithms(s10, rhs)
        s12 == merge_pubkey_authentication(s11, rhs)
        s13 == merge_remote_forward(s12, rhs)
    IN  merge_tcp_keep_alive(s13, rhs)

----------------------------------------------------------------------------
\* The layers handed to merge.

\* `b` of test::should_merge_params as it is at the first merge call.
test_b ==
    [ bind_address               |-> Some("pippo"),
      bind_interface             |-> Some("tun0"),
      ca_signature_algorithms    |-> Some(<<>>),
      certificate_file           |-> Some(""),
      ciphers                    |-> Some(<<>>),
      compression                |-> Some(TRUE),
      connection_attemps         |-> Some(3),
      connect_timeout            |-> Some(1),
      host_name                  |-> Some("192.168.1.2"),
      mac                        |-> Some(<<>>),
      pubkey_accepted_algorithms |-> Some(<<>>),
      pubkey_authentication      |-> Some(TRUE),
      remote_forward             |-> Some(32),
      tcp_keep_alive             |-> Some(TRUE) ]

\* `b` of the test at the second merge call, after b.tcp_keep_alive = None.
test_b_twice == [test_b EXCEPT !.tcp_keep_alive = None]

\* A record with every field set to the value test_b does not use.
other_b == [f \in Fields |-> Some(CHOOSE v \in Dom(f) : v # unwrap(test_b[f]))]

\* Records with exactly one field set, for every field and value.
SingleFieldLayers ==
    UNION { { [default EXCEPT ![f] = Some(v)] : v \in Dom(f) } : f \in Fields }

LayerSet ==
    { default, test_b, test_b_twice, other_b } \cup SingleFieldLayers

----------------------------------------------------------------------------
\* State.
\*   params  the receiver (`params` of the tests)
\*   b       the argument of the latest merge call, as the call left it
\*   layers  the arguments of the merge calls made on the receiver since it
\*           was constructed, as they were when passed, in call order
\*   prev    the receiver on entry to the latest merge call

VARIABLES params, b, layers, prev

vars == <<params, b, layers, prev>>

\* let mut params = HostParams::default(); let mut b = HostParams::default();
Init == /\ params = default
        /\ b = default
        /\ layers = <<>>
        /\ prev = default

\* let mut params = HostParams::default(): a new receiver is constructed;
\* the layer held in b is not touched.
New == /\ params' = default
       /\ layers' = <<>>
       /\ prev' = default
       /\ UNCHANGED b

\* The values are moved out of the argument (Option::take) instead of cloned.
MergeCall_take(q) ==
    /\ Len(layers) < MaxLayers
    /\ prev' = params
    /\ params' = merge(params, q)
    /\ b' = [f \in Fields |-> None]
    /\ layers' = Append(layers, q)

\* params.merge(&q): the receiver is updated, the argument is only read.
MergeCall(q) ==
    /\ Len(layers) < MaxLayers
    /\ prev' = params
    /\ params' = merge(params, q)
    /\ b' = q
    /\ layers' = Append(layers, q)

Merge == \E q \in LayerSet : MergeCall(q)

Next == New \/ Merge

Spec == Init /\ [][Next]_vars

----------------------------------------------------------------------------
\* Properties.

\* The argument of the latest merge call, as it was when passed.
LastArg == layers[Len(layers)]

\* The record with every field unset, written out independently of `default`.
AllUnset == [f \in Fields |-> <<>>]

\* Fields set in both records with different values.
Conflicts(p, q) == { f \in Fields : is_some(p[f]) /\ is_some(q[f]) /\ p[f] # q[f] }

\* The value of field f in the last layer of s that sets f, None if none does.
LastSet(s, f) ==
    LET I == { i \in 1..Len(s) : s[i][f] # <<>> }
    IN  IF I = {} THEN <<>>
        ELSE s[CHOOSE i \in I : \A j \in I : j <= i][f]

\* C1: after P.merge(&Q), every field that is set in Q has exactly Q's value
\* in P, whatever P held before (false over true, 0 over non-zero, a list,
\* also the empty one, over the whole previous list).
PerFieldOverride ==
    layers # <<>> =>
        \A f \in Fields : LastArg[f] # <<>> => params[f] = LastArg[f]

\* C1 witness: explicit false, explicit 0 and a list have replaced explicit
\* true, 3 and the empty list.
PerFieldOverrideWitness ==
    /\ Len(layers) = 2
    /\ prev = test_b
    /\ LastArg = other_b
    /\ prev.compression = <<TRUE>> /\ params.compression = <<FALSE>>
    /\ prev.connection_attemps = <<3>> /\ params.connection_attemps = <<0>>
    /\ prev.ciphers = << <<>> >> /\ params.ciphers = << <<"aes128">> >>

\* C2: after P.merge(&Q), every field that is unset in Q has in P exactly
\* the value it had before the call.
Preservation ==
    layers # <<>> =>
        \A f \in Fields : LastArg[f] = <<>> => params[f] = prev[f]

\* C2 witness: the second merge of test::should_merge_params, which passes
\* tcp_keep_alive unset and keeps Some(true).
PreservationWitness ==
    /\ layers = <<test_b, test_b_twice>>
    /\ prev.tcp_keep_alive = <<TRUE>>
    /\ params.tcp_keep_alive = <<TRUE>>

\* C3: a newly constructed HostParams has 14 fields, all of them None.
DefaultAllUnset ==
    layers = <<>> =>
        /\ DOMAIN params = Fields
        /\ Cardinality(Fields) = 14
        /\ \A f \in Fields : params[f] = <<>>

\* C3 witness: a receiver constructed after test_b was merged into an
\* earlier one, on which merge has not been called yet.
DefaultAllUnsetWitness ==
    /\ layers = <<>>
    /\ b = test_b
    /\ params = AllUnset

\* C4: the all-unset record is a two-sided identity: merging it into P
\* leaves P as it was, and merging P into it yields P.
Identity ==
    layers # <<>> =>
        /\ (LastArg = AllUnset => params = prev)
        /\ (prev = AllUnset => params = LastArg)

\* C4 witness: test_b merged into the default record gives test_b, and the
\* default record merged into that leaves it test_b.
IdentityWitness ==
    /\ layers = <<test_b, AllUnset>>
    /\ prev = test_b
    /\ params = test_b

\* C5: merging the same Q twice in a row gives what merging it once gives.
Idempotence ==
    /\ (Len(layers) >= 2 /\ layers[Len(layers)] = layers[Len(layers) - 1])
           => params = prev
    /\ layers # <<>> => merge(params, LastArg) = params

\* C5 witness: a non-empty list merged twice in a row.
IdempotenceWitness ==
    /\ Len(layers) = 2
    /\ layers[1] = layers[2]
    /\ layers[2].mac = << <<"hmac-sha2-256">> >>
    /\ params = prev

\* C6: across merges on one receiver a field that is set stays set: every
\* field set on entry to a call is set after it, and every field that any
\* layer merged so far has set is set in the receiver.
NoReversion ==
    /\ layers # <<>> => \A f \in Fields : prev[f] # <<>> => params[f] # <<>>
    /\ \A i \in 1..Len(layers) : \A f \in Fields :
           layers[i][f] # <<>> => params[f] # <<>>

\* C6 witness: host_name set by the first layer and unset in the second.
NoReversionWitness ==
    /\ Len(layers) = 2
    /\ layers[1].host_name # <<>>
    /\ layers[2].host_name = <<>>
    /\ layers[2] # AllUnset
    /\ params.host_name = layers[1].host_name

\* C7: after merging layers Q1..Qn in order into a default record, each
\* field has the value of the last layer that sets it, and is unset exactly
\* when no layer sets it.
LastWins ==
    /\ \A f \in Fields : params[f] = LastSet(layers, f)
    /\ \A f \in Fields :
           params[f] = <<>> <=> \A i \in 1..Len(layers) : layers[i][f] = <<>>

\* C7 witness: two layers set connect_timeout to different values and the
\* receiver has the second one.
LastWinsWitness ==
    /\ Len(layers) = 2
    /\ layers[1].connect_timeout = <<30>>
    /\ layers[2].connect_timeout = <<1>>
    /\ params.connect_timeout = <<1>>

\* C8: merge changes only its receiver: after the call the argument is
\* what was passed, and the receiver is a well-formed HostParams (the call
\* has no other outcome).
ArgumentUnchanged ==
    layers # <<>> => /\ b = LastArg
                     /\ IsHostParams(b)
                     /\ IsHostParams(params)

\* C8 witness: a call that changed the receiver and was passed test_b.
ArgumentUnchangedWitness ==
    /\ layers # <<>>
    /\ LastArg = test_b
    /\ b = test_b
    /\ params # prev

\* C9: no cross-talk: if P and P' agree on every field but F and Q and Q'
\* agree on every field but F, then merge(P, Q) and merge(P', Q') agree on
\* every field but F (with P' = P this is the one-call statement, and by
\* induction over the calls it is the statement for merge sequences).
FieldIndependence ==
    layers # <<>> =>
        \A f \in Fields : \A v \in Opt(f) : \A w \in Opt(f) :
            LET r == merge([prev EXCEPT ![f] = v], [LastArg EXCEPT ![f] = w])
            IN  \A g \in Fields \ {f} : r[g] = params[g]

\* C9 witness: a call whose argument sets several fields and changes them.
FieldIndependenceWitness ==
    /\ Len(layers) = 2
    /\ prev = other_b
    /\ LastArg = test_b_twice
    /\ params.pubkey_authentication = <<TRUE>>
    /\ params.compression = <<TRUE>>
    /\ params.tcp_keep_alive = <<FALSE>>

\* C10: when some field is set in both P and Q with different values,
\* merge(P, Q) differs from merge(Q, P): on such a field the first has Q's
\* value and the second has P's.
NotCommutative ==
    layers # <<>> =>
        \A f \in Conflicts(prev, LastArg) :
            /\ params # merge(LastArg, prev)
            /\ params[f] = LastArg[f]
            /\ merge(LastArg, prev)[f] = prev[f]

\* C10 witness: compression is Some(true) in P and Some(false) in Q.
NotCommutativeWitness ==
    /\ layers # <<>>
    /\ prev.compression = <<TRUE>>
    /\ LastArg.compression = <<FALSE>>
    /\ params # merge(LastArg, prev)

====
